---- MODULE Spec2Model ----
(***************************************************************************)
(* The systemd adapter of the service library (service_systemd_linux.go):  *)
(* Install / Uninstall / Start / Stop / Restart against the file system    *)
(* and the systemctl control plane, and the Run loop that bridges          *)
(* termination signals to the caller's start and stop hooks.               *)
(***************************************************************************)
EXTENDS Naturals, Sequences, FiniteSets, TLC

VARIABLES
    cfg,        \* the adapter's *Config (fixed at construction)
    files,      \* /etc/systemd/system/<name>.service and <name>.socket
    enabled,    \* control plane: the unit is enabled
    active,     \* control plane: the unit is active
    open,       \* file handles currently open in this process
    last,       \* the last lifecycle call: what it did and what it returned
    prev,       \* the lifecycle call before it: its name and its result
    run,        \* the Run() invocation in progress or last returned
    subs,       \* signal.Notify registrations: one channel fill level each
    waitUsed,   \* the run-wait guard of Option.funcSingle (process wide)
    nruns,      \* Run() invocations made so far in this process
    nsigs       \* termination signals delivered so far

vars == <<cfg, files, enabled, active, open, last, prev, run, subs, waitUsed, nruns, nsigs>>

-----------------------------------------------------------------------------
(* Bounds of the model *)

MaxRuns == 3
MaxSignals == 4

(* make(chan os.Signal, 3) *)
ChanCap == 3

-----------------------------------------------------------------------------
(* Files *)

Svc == "service"
Sock == "socket"
FileNames == {Svc, Sock}

\* s.configPath(): the unit file's path for a system service
configPath(name) == "/etc/systemd/system/" \o name \o ".service"
\* s.socketPath()
socketPath(name) == "/etc/systemd/system/" \o name \o ".socket"

\* A file that is not there, one that os.Create has just made (or truncated),
\* one left by somebody else, and one a template was executed into: completely,
\* or cut short by a failing Execute.
Absent == [exists |-> FALSE, tmpl |-> "none", written |-> "nothing"]
EmptyFile == [exists |-> TRUE, tmpl |-> "none", written |-> "nothing"]
Foreign == [exists |-> TRUE, tmpl |-> "foreign", written |-> "all"]
Rendered(tmpl) == [exists |-> TRUE, tmpl |-> tmpl, written |-> "all"]
Partial(tmpl) == [exists |-> TRUE, tmpl |-> tmpl, written |-> "partial"]

TemplateOf(f) == IF f = Svc THEN "systemdScript" ELSE "systemdSocket"

-----------------------------------------------------------------------------
(* Errors *)

NoErr == "nil"
errNoUserServiceSystemd == "User services are not supported on systemd."
InitExists(name) == "Init already exists: " \o configPath(name)
SocketExists(name) == "Socket already exists: " \o socketPath(name)
ExistsErr(f, name) == IF f = Svc THEN InitExists(name) ELSE SocketExists(name)
StepErr(step) == "error: " \o step

-----------------------------------------------------------------------------
(* The steps of the lifecycle calls.  A step is a record [do, arg].         *)

S(do, arg) == [do |-> do, arg |-> arg]
Name(step) == step.do \o ":" \o step.arg

\* The state a call threads through its steps.
Enter(fs, en, ac, op) ==
    [files |-> fs, enabled |-> en, active |-> ac, open |-> op,
     deferred |-> <<>>, log |-> <<>>, err |-> NoErr]

\* s.configPath(): user services are refused, nothing else happens
DoConfigPath(st, c) ==
    IF c.UserService THEN [st EXCEPT !.err = errNoUserServiceSystemd] ELSE st

\* os.Stat(path): err == nil means the file is there
DoStat(st, f, c) ==
    LET st1 == [st EXCEPT !.log = Append(@, Name(S("stat", f)))]
    IN IF st.files[f].exists THEN [st1 EXCEPT !.err = ExistsErr(f, c.Name)] ELSE st1

\* os.Create(path) and, when it succeeds, defer f.Close()
DoCreate(st, f, fails) ==
    LET st1 == [st EXCEPT !.log = Append(@, Name(S("create", f)))]
    IN IF fails THEN [st1 EXCEPT !.err = StepErr(Name(S("create", f)))]
       ELSE [st1 EXCEPT !.files[f] = EmptyFile,
                        !.open = @ \cup {f},
                        !.deferred = Append(@, f)]

\* s.execPath()
DoExecPath(st, fails) ==
    LET st1 == [st EXCEPT !.log = Append(@, Name(S("execPath", "")))]
    IN IF fails THEN [st1 EXCEPT !.err = StepErr(Name(S("execPath", "")))] ELSE st1

\* s.template(t).Execute(f, to): writes through the open handle
DoRender(st, f, fails) ==
    LET st1 == [st EXCEPT !.log = Append(@, Name(S("render", f)))]
    IN IF fails THEN [st1 EXCEPT !.files[f] = Partial(TemplateOf(f)),
                                 !.err = StepErr(Name(S("render", f)))]
       ELSE [st1 EXCEPT !.files[f] = Rendered(TemplateOf(f))]

\* run("systemctl", verb, ...): the command's exit status is the result; a
\* command that succeeds has its effect on the control plane.
DoRun(st, verb, fails) ==
    LET st1 == [st EXCEPT !.log = Append(@, Name(S("run", verb)))]
    IN IF fails THEN [st1 EXCEPT !.err = StepErr(Name(S("run", verb)))]
       ELSE CASE verb = "enable" -> [st1 EXCEPT !.enabled = TRUE]
              [] verb = "disable" -> [st1 EXCEPT !.enabled = FALSE]
              [] verb = "start" -> [st1 EXCEPT !.active = TRUE]
              [] verb = "stop" -> [st1 EXCEPT !.active = FALSE]
              [] verb = "restart" -> [st1 EXCEPT !.active = TRUE]
              [] OTHER -> st1

\* A faulty variant: removing a file that is not there succeeds.
DoRemoveForce(st, f, fails) ==
    LET st1 == [st EXCEPT !.log = Append(@, Name(S("remove", f)))]
    IN IF fails
       THEN [st1 EXCEPT !.err = StepErr(Name(S("remove", f)))]
       ELSE [st1 EXCEPT !.files[f] = Absent]

\* os.Remove(path): fails when there is nothing to remove
DoRemove(st, f, fails) ==
    LET st1 == [st EXCEPT !.log = Append(@, Name(S("remove", f)))]
    IN IF fails \/ ~st.files[f].exists
       THEN [st1 EXCEPT !.err = StepErr(Name(S("remove", f)))]
       ELSE [st1 EXCEPT !.files[f] = Absent]

Step(st, step, c, fails) ==
    CASE step.do = "configPath" -> DoConfigPath(st, c)
      [] step.do = "stat" -> DoStat(st, step.arg, c)
      [] step.do = "create" -> DoCreate(st, step.arg, fails)
      [] step.do = "execPath" -> DoExecPath(st, fails)
      [] step.do = "render" -> DoRender(st, step.arg, fails)
      [] step.do = "run" -> DoRun(st, step.arg, fails)
      [] step.do = "remove" -> DoRemove(st, step.arg, fails)

\* Every step is followed by `if err != nil { return err }`: the first error
\* ends the call.
RECURSIVE Exec(_, _, _, _)
Exec(st, steps, c, failAt) ==
    IF steps = <<>> \/ st.err # NoErr THEN st
    ELSE Exec(Step(st, Head(steps), c, Name(Head(steps)) = failAt),
              Tail(steps), c, failAt)

\* A faulty variant: a failing call removes the files it created.
ReturnWithCleanup(st) ==
    [st EXCEPT !.open = @ \ {st.deferred[i] : i \in DOMAIN st.deferred},
               !.files = [f \in FileNames |->
                            IF st.err # NoErr /\ \E i \in DOMAIN st.deferred : st.deferred[i] = f
                            THEN Absent ELSE st.files[f]]]

\* A faulty variant: the handles are closed only when the call succeeds.
ReturnCloseOnSuccess(st) ==
    IF st.err = NoErr
    THEN [st EXCEPT !.open = @ \ {st.deferred[i] : i \in DOMAIN st.deferred}]
    ELSE st

\* The deferred f.Close() calls run when the call returns.
Return(st) == [st EXCEPT !.open = @ \ {st.deferred[i] : i \in DOMAIN st.deferred}]

\* A faulty variant: both unit files are written before the unit is enabled.
SocketStepsFirst(c) ==
    <<S("configPath", ""), S("stat", Svc), S("create", Svc), S("execPath", ""),
      S("render", Svc)>>
    \o (IF c.WithSocket
        THEN <<S("stat", Sock), S("create", Sock), S("render", Sock)>>
        ELSE <<>>)
    \o <<S("run", "enable"), S("run", "daemon-reload")>>

\* A faulty variant: the unit file is created without looking for an existing one.
NoStatSteps(c) ==
    <<S("configPath", ""), S("create", Svc), S("execPath", ""),
      S("render", Svc), S("run", "enable")>>
    \o (IF c.WithSocket
        THEN <<S("stat", Sock), S("create", Sock), S("render", Sock)>>
        ELSE <<>>)
    \o <<S("run", "daemon-reload")>>

\* Install(), in the order of the code
InstallSteps(c) ==
    <<S("configPath", ""), S("stat", Svc), S("create", Svc), S("execPath", ""),
      S("render", Svc), S("run", "enable")>>
    \o (IF c.WithSocket
        THEN <<S("stat", Sock), S("create", Sock), S("render", Sock)>>
        ELSE <<>>)
    \o <<S("run", "daemon-reload")>>

\* A faulty variant: the files are removed before the unit is disabled.
RemoveBeforeDisable(c) ==
    <<S("configPath", ""), S("remove", Svc), S("remove", Sock), S("run", "disable")>>

\* A faulty variant: the socket file is removed only when the descriptor has a socket.
RemoveSocketIfConfigured(c) ==
    <<S("run", "disable"), S("configPath", ""), S("remove", Svc)>>
    \o (IF c.WithSocket THEN <<S("remove", Sock)>> ELSE <<>>)

\* A faulty variant: the socket file is left behind.
RemoveServiceOnly(c) ==
    <<S("run", "disable"), S("configPath", ""), S("remove", Svc)>>

\* Uninstall(), in the order of the code
UninstallSteps(c) ==
    <<S("run", "disable"), S("configPath", ""), S("remove", Svc), S("remove", Sock)>>

\* A faulty variant: Start() reloads the control plane before it starts the unit.
ReloadThenStart(c) == <<S("run", "daemon-reload"), S("run", "start")>>

StartSteps(c) == <<S("run", "start")>>
StopSteps(c) == <<S("run", "stop")>>
RestartSteps(c) == <<S("run", "restart")>>

\* The steps the environment can make fail
Fallible(steps) ==
    {Name(steps[i]) : i \in {j \in DOMAIN steps : steps[j].do \notin {"configPath", "stat"}}}

NoFailure == "none"

-----------------------------------------------------------------------------
(* The lifecycle calls *)

\* What a call made in the current state does and returns.
Outcome(steps, failAt) ==
    Return(Exec(Enter(files, enabled, active, open), steps, cfg, failAt))

Record(op, st) ==
    [op |-> op, err |-> st.err, log |-> st.log,
     files |-> files, enabled |-> enabled, active |-> active]

Install ==
    \E failAt \in Fallible(InstallSteps(cfg)) \cup {NoFailure} :
        LET st == Outcome(InstallSteps(cfg), failAt)
        IN /\ files' = st.files
           /\ enabled' = st.enabled
           /\ active' = st.active
           /\ open' = st.open
           /\ last' = Record("Install", st)
           /\ prev' = [op |-> last.op, err |-> last.err]
           /\ UNCHANGED <<cfg, run, subs, waitUsed, nruns, nsigs>>

Uninstall ==
    \E failAt \in Fallible(UninstallSteps(cfg)) \cup {NoFailure} :
        LET st == Outcome(UninstallSteps(cfg), failAt)
        IN /\ files' = st.files
           /\ enabled' = st.enabled
           /\ active' = st.active
           /\ open' = st.open
           /\ last' = Record("Uninstall", st)
           /\ prev' = [op |-> last.op, err |-> last.err]
           /\ UNCHANGED <<cfg, run, subs, waitUsed, nruns, nsigs>>

Start ==
    \E failAt \in Fallible(StartSteps(cfg)) \cup {NoFailure} :
        LET st == Outcome(StartSteps(cfg), failAt)
        IN /\ files' = st.files
           /\ enabled' = st.enabled
           /\ active' = st.active
           /\ open' = st.open
           /\ last' = Record("Start", st)
           /\ prev' = [op |-> last.op, err |-> last.err]
           /\ UNCHANGED <<cfg, run, subs, waitUsed, nruns, nsigs>>

Stop ==
    \E failAt \in Fallible(StopSteps(cfg)) \cup {NoFailure} :
        LET st == Outcome(StopSteps(cfg), failAt)
        IN /\ files' = st.files
           /\ enabled' = st.enabled
           /\ active' = st.active
           /\ open' = st.open
           /\ last' = Record("Stop", st)
           /\ prev' = [op |-> last.op, err |-> last.err]
           /\ UNCHANGED <<cfg, run, subs, waitUsed, nruns, nsigs>>

Restart ==
    \E failAt \in Fallible(RestartSteps(cfg)) \cup {NoFailure} :
        LET st == Outcome(RestartSteps(cfg), failAt)
        IN /\ files' = st.files
           /\ enabled' = st.enabled
           /\ active' = st.active
           /\ open' = st.open
           /\ last' = Record("Restart", st)
           /\ prev' = [op |-> last.op, err |-> last.err]
           /\ UNCHANGED <<cfg, run, subs, waitUsed, nruns, nsigs>>

-----------------------------------------------------------------------------
(* Construction *)

\* Option[optionRunWait]: not set (Run() blocks until a termination signal), or
\* the caller's own func() to run in place of the wait (a no-op: no blocking).
RunWaitOptions == {"unset", "noop"}

\* Every Config of the model: the fields the adapter reads, the options among
\* them (user service, run wait, reload signal, PID file).
AllConfigs ==
    [Name : {"svc"}, UserService : BOOLEAN, WithSocket : BOOLEAN,
     RunWait : RunWaitOptions,
     Description : {"svc daemon"},
     Arguments : {<<>>, <<"-c", "/etc/svc.conf">>},
     ChRoot : {"", "/srv/jail"},
     WorkingDirectory : {"", "/var/lib/svc"},
     UserName : {"", "daemon"},
     ReloadSignal : {"", "HUP"},
     PIDFile : {"", "/run/svc.pid"},
     UMask : {"022"},
     LimitNOFILE : {"4096"},
     SocketDescription : {"", "svc socket"},
     SocketPort : {"8080", "127.0.0.1:9090"}]

\* The Configs the lifecycle calls and the Run loop are explored with: what
\* they do does not depend on the fields that are only written into the text.
Configs ==
    {c \in AllConfigs :
        /\ c.Arguments = <<>>
        /\ c.ChRoot = "" /\ c.WorkingDirectory = "" /\ c.UserName = ""
        /\ c.ReloadSignal = "" /\ c.PIDFile = ""
        /\ c.SocketDescription = "svc socket" /\ c.SocketPort = "8080"}

NoCall == [op |-> "none", err |-> NoErr]

\* A Run() call: where it is, the hooks it has called and what they returned,
\* the registrations it made, its channel, the signals it received, and the
\* registrations and signals there were when it was entered, and whether a
\* signal has ended the process.
NoRun == [state |-> "idle", hooks |-> <<>>, startResult |-> NoErr, stopResult |-> NoErr,
          result |-> NoErr, subscribed |-> 0, chan |-> 0, received |-> <<>>,
          subsAtEntry |-> 0, sigsAtEntry |-> 0, killed |-> FALSE]

\* newSystemdService: the adapter holds the caller's Config.  The unit
\* directory is the host's: a file of either name may already be there.
Init ==
    /\ cfg \in Configs
    /\ files \in [FileNames -> {Absent, Foreign}]
    /\ enabled = FALSE
    /\ active = FALSE
    /\ open = {}
    /\ last = [op |-> "none", err |-> NoErr, log |-> <<>>,
               files |-> files, enabled |-> FALSE, active |-> FALSE]
    /\ prev = NoCall
    /\ run = NoRun
    /\ subs = <<>>
    /\ waitUsed = FALSE
    /\ nruns = 0
    /\ nsigs = 0

-----------------------------------------------------------------------------
(* The unit texts.  A text is a sequence of lines, a line a sequence of      *)
(* pieces: template text, a printed field, or a field piped through one of  *)
(* the template functions.                                                  *)

Lit(s) == [fn |-> "text", arg |-> s]
Value(v) == [fn |-> "print", arg |-> v]
cmd(v) == [fn |-> "cmd", arg |-> v]
cmdEscape(v) == [fn |-> "cmdEscape", arg |-> v]

\* what s.execPath() returns
ExecPath == "/usr/bin/svc"

\* to: the Config with Path, ReloadSignal and PIDFile
To(c) ==
    [Name |-> c.Name, Description |-> c.Description, Arguments |-> c.Arguments,
     ChRoot |-> c.ChRoot, WorkingDirectory |-> c.WorkingDirectory,
     UserName |-> c.UserName, UMask |-> c.UMask, LimitNOFILE |-> c.LimitNOFILE,
     SocketDescription |-> c.SocketDescription, SocketPort |-> c.SocketPort,
     Path |-> ExecPath, ReloadSignal |-> c.ReloadSignal, PIDFile |-> c.PIDFile]

\* {{range .Arguments}} {{.|cmd}}{{end}}
RECURSIVE RangeArguments(_)
RangeArguments(args) ==
    IF args = <<>> THEN <<>>
    ELSE <<Lit(" "), cmd(Head(args))>> \o RangeArguments(Tail(args))

\* A faulty variant: the line is written whether or not the field is set.
Unconditional(field, line) == <<line>>

\* A faulty variant: an unset field leaves no line at all.
Trimmed(field, line) == IF field # "" THEN <<line>> ELSE <<>>

\* {{if .Field}}...{{end}} and the line break after it, which is outside the
\* {{if}}: an unset field leaves an empty line.
Optional(field, line) == IF field # "" THEN <<line>> ELSE << <<>> >>

systemdScript(to) ==
    << <<Lit("[Unit]")>>,
       <<Lit("Description="), Value(to.Description)>>,
       <<Lit("ConditionFileIsExecutable="), cmdEscape(to.Path)>>,
       <<Lit("## Uncomment for socket-based activation")>>,
       <<Lit("#Requires="), Value(to.Name), Lit(".socket")>>,
       <<>>,
       <<Lit("[Service]")>>,
       <<Lit("## Uncomment for socket-based activation")>>,
       <<Lit("#NonBlocking=true")>>,
       <<>>,
       <<Lit("StartLimitInterval=5")>>,
       <<Lit("StartLimitBurst=10")>>,
       <<Lit("LimitNOFILE="), Value(to.LimitNOFILE)>>,
       <<Lit("ExecStart="), cmdEscape(to.Path)>> \o RangeArguments(to.Arguments) >>
    \o Optional(to.ChRoot, <<Lit("RootDirectory="), cmd(to.ChRoot)>>)
    \o Optional(to.WorkingDirectory,
                <<Lit("WorkingDirectory="), cmdEscape(to.WorkingDirectory)>>)
    \o Optional(to.UserName, <<Lit("User="), Value(to.UserName)>>)
    \o Optional(to.ReloadSignal,
                <<Lit("ExecReload=/bin/kill -"), Value(to.ReloadSignal), Lit(" \"$MAINPID\"")>>)
    \o Optional(to.PIDFile, <<Lit("PIDFile="), cmd(to.PIDFile)>>)
    \o << <<Lit("UMask="), Value(to.UMask)>>,
          <<Lit("Restart=always")>>,
          <<Lit("RestartSec=120")>>,
          <<Lit("EnvironmentFile=-/etc/sysconfig/"), Value(to.Name)>>,
          <<>>,
          <<Lit("[Install]")>>,
          <<Lit("WantedBy=multi-user.target")>> >>

\* A faulty variant: the socket unit is described by the service's Description.
SocketWithServiceDescription(to) ==
    << <<Lit("[Unit]")>>,
       <<Lit("Description="), Value(to.Description)>>,
       <<>>,
       <<Lit("[Socket]")>>,
       <<Lit("ListenStream="), Value(to.SocketPort)>>,
       <<Lit("NoDelay=true")>> >>

systemdSocket(to) ==
    << <<Lit("[Unit]")>>,
       <<Lit("Description="), Value(to.SocketDescription)>>,
       <<>>,
       <<Lit("[Socket]")>>,
       <<Lit("ListenStream="), Value(to.SocketPort)>>,
       <<Lit("NoDelay=true")>> >>

\* s.template(t).Execute(f, to), run to its end: the text in the file
Execute(tmpl, to) ==
    IF tmpl = "systemdScript" THEN systemdScript(to) ELSE systemdSocket(to)

\* The text of file f once it is Rendered
Text(f) == Execute(TemplateOf(f), To(cfg))

-----------------------------------------------------------------------------
(* Run() *)

Signals == {"SIGTERM", "SIGINT"}
StartError == "error: start hook"
StopError == "error: stop hook"
HookResults(e) == {NoErr, e}

\* s.Option.funcSingle(optionRunWait, default): the caller's func when the
\* option is set, else the default wait, which is performed at most once per
\* process.
funcSingle(option, used) ==
    IF option # "unset" THEN "option"
    ELSE IF used THEN "skip" ELSE "default"

\* signal.Notify(sigChan, syscall.SIGTERM, os.Interrupt) on a fresh
\* make(chan os.Signal, 3): one more registration, its channel empty.
Notify(ss) == Append(ss, <<>>)

\* A faulty variant: the registration is taken down once the signal has been received.
SignalStop(ss, ch) == [i \in 1 .. Len(ss) - 1 |-> IF i < ch THEN ss[i] ELSE ss[i + 1]]

\* <-sigChan returns and with it the wait: one signal is taken off the
\* channel, and the channel stays registered (there is no signal.Stop).
WaitReturns(ss, ch) == [ss EXCEPT ![ch] = Tail(@)]

\* The runtime hands a signal to every registered channel without blocking:
\* a full channel drops it.
Deliver(ss, sig) ==
    [i \in DOMAIN ss |-> IF Len(ss[i]) < ChanCap THEN Append(ss[i], sig) ELSE ss[i]]

\* the signal <-sigChan yields
Receive(ch) == Head(ch)

\* A faulty variant: the stop hook's result is dropped.
RunResultNil(stopResult) == NoErr

\* return s.i.Stop(s)
RunResult(stopResult) == stopResult

\* A faulty variant: the stop hook is called although the start hook failed.
StartFailedThenStop(r, err) ==
    [r EXCEPT !.state = "returned", !.hooks = <<"start", "stop">>, !.startResult = err,
              !.result = err]

\* err = s.i.Start(s); if err != nil { return err }
StartFailed(r, err) ==
    [r EXCEPT !.state = "returned", !.hooks = <<"start">>, !.startResult = err,
              !.result = err]

\* A faulty variant: without a received signal Run() returns without calling the stop hook.
StoppedIfSignalled(r, stopResult) ==
    IF r.received = <<>>
    THEN [r EXCEPT !.state = "returned"]
    ELSE [r EXCEPT !.state = "returned", !.hooks = Append(@, "stop"),
                   !.stopResult = stopResult, !.result = stopResult]

\* the stop hook is called and Run() returns
Stopped(r, stopResult) ==
    [r EXCEPT !.state = "returned", !.hooks = Append(@, "stop"),
              !.stopResult = stopResult, !.result = RunResult(stopResult)]

Entered == [NoRun EXCEPT !.subsAtEntry = Len(subs), !.sigsAtEntry = nsigs]

\* Run() up to the point where it blocks or returns
RunCall ==
    /\ run.state \in {"idle", "returned"}
    /\ ~run.killed
    /\ nruns < MaxRuns
    /\ nruns' = nruns + 1
    /\ \E startResult \in HookResults(StartError), stopResult \in HookResults(StopError) :
         IF startResult # NoErr
         THEN /\ run' = StartFailed(Entered, startResult)
              /\ UNCHANGED <<subs, waitUsed>>
         ELSE LET started == [Entered EXCEPT !.hooks = <<"start">>]
                  wait == funcSingle(cfg.RunWait, waitUsed)
              IN IF wait = "default"
                 THEN /\ subs' = Notify(subs)
                      /\ waitUsed' = TRUE
                      /\ run' = [started EXCEPT !.state = "waiting",
                                                !.subscribed = 1,
                                                !.chan = Len(subs')]
                 ELSE /\ run' = Stopped(started, stopResult)
                      /\ UNCHANGED <<subs, waitUsed>>
    /\ UNCHANGED <<cfg, files, enabled, active, open, last, prev, nsigs>>

\* A faulty variant: the wait gives up although no signal has arrived.
RunReceiveTimeout ==
    /\ run.state = "waiting"
    /\ ~run.killed
    /\ \E stopResult \in HookResults(StopError) :
         IF subs[run.chan] # <<>>
         THEN /\ run' = Stopped([run EXCEPT !.received = Append(@, Receive(subs[run.chan]))],
                                stopResult)
              /\ subs' = WaitReturns(subs, run.chan)
         ELSE /\ run' = Stopped(run, stopResult)
              /\ UNCHANGED subs
    /\ UNCHANGED <<cfg, files, enabled, active, open, last, prev, waitUsed, nruns, nsigs>>

\* The blocked receive returns; Run() calls the stop hook and returns.
RunReceive ==
    /\ run.state = "waiting"
    /\ ~run.killed
    /\ subs[run.chan] # <<>>
    /\ \E stopResult \in HookResults(StopError) :
         /\ run' = Stopped([run EXCEPT !.received = Append(@, Receive(subs[run.chan]))],
                           stopResult)
         /\ subs' = WaitReturns(subs, run.chan)
    /\ UNCHANGED <<cfg, files, enabled, active, open, last, prev, waitUsed, nruns, nsigs>>

\* A termination signal reaches the process.  With no registration the
\* signal's default action ends the process.
Signal ==
    /\ ~run.killed
    /\ nsigs < MaxSignals
    /\ nsigs' = nsigs + 1
    /\ \E sig \in Signals :
         IF subs = <<>>
         THEN /\ run' = [run EXCEPT !.killed = TRUE]
              /\ UNCHANGED subs
         ELSE /\ subs' = Deliver(subs, sig)
              /\ UNCHANGED run
    /\ UNCHANGED <<cfg, files, enabled, active, open, last, prev, waitUsed, nruns>>

Next == Install \/ Uninstall \/ Start \/ Stop \/ Restart

Spec == Init /\ [][Next]_vars

\* The Run loop shares no state with the lifecycle calls.
RunNext == RunCall \/ RunReceive \/ Signal

RunSpec == Init /\ [][RunNext]_vars

\* The unit texts are explored for every Config of a system service, by
\* Install() alone.
RenderInit ==
    /\ cfg \in {c \in AllConfigs : ~c.UserService /\ c.RunWait = "unset"}
    /\ files \in [FileNames -> {Absent, Foreign}]
    /\ enabled = FALSE
    /\ active = FALSE
    /\ open = {}
    /\ last = [op |-> "none", err |-> NoErr, log |-> <<>>,
               files |-> files, enabled |-> FALSE, active |-> FALSE]
    /\ prev = NoCall
    /\ run = NoRun
    /\ subs = <<>>
    /\ waitUsed = FALSE
    /\ nruns = 0
    /\ nsigs = 0

RenderNext == Install

RenderSpec == RenderInit /\ [][RenderNext]_vars

\* The goroutine blocked in <-sigChan runs once its channel holds a signal.
RunFairSpec == Init /\ [][RunNext]_vars /\ WF_vars(RunReceive)

-----------------------------------------------------------------------------
(* What the claims read from the record of a call *)

IsPrefix(a, b) == Len(a) <= Len(b) /\ \A i \in DOMAIN a : a[i] = b[i]
Count(log, e) == Cardinality({i \in DOMAIN log : log[i] = e})
Has(log, e) == \E i \in DOMAIN log : log[i] = e
Precedes(log, a, b) == \E i, j \in DOMAIN log : i < j /\ log[i] = a /\ log[j] = b
Commands(log) ==
    SelectSeq(log, LAMBDA e : e \in {"run:enable", "run:disable", "run:daemon-reload",
                                     "run:start", "run:stop", "run:restart"})
Removals(log) == SelectSeq(log, LAMBDA e : e \in {"remove:service", "remove:socket"})
LastOf(log) == log[Len(log)]
ErrOfStep(e, c) == IF e = "stat:socket" THEN SocketExists(c.Name) ELSE StepErr(e)

InstallOnExisting == last.op = "Install" /\ last.files[Svc].exists

\* C1 as stated: whenever the service unit file is already there, Install()
\* fails with the already-exists error, calls no command, and leaves the
\* file as it was.
C1_Original ==
    InstallOnExisting =>
        /\ last.err = InitExists(cfg.Name)
        /\ Commands(last.log) = <<>>
        /\ files = last.files

\* C1, amended: with the service unit file already there, Install() fails,
\* with the already-exists error for a system service and with the
\* user-service error for a user service; either way it calls no command
\* and leaves files and control plane as they were.
C1_AlreadyExists ==
    InstallOnExisting =>
        /\ last.err = (IF cfg.UserService THEN errNoUserServiceSystemd
                       ELSE InitExists(cfg.Name))
        /\ Commands(last.log) = <<>>
        /\ files = last.files
        /\ enabled = last.enabled
        /\ active = last.active

C1_Witness ==
    /\ InstallOnExisting
    /\ prev.op = "Install"
    /\ prev.err = NoErr
    /\ last.err = InitExists(cfg.Name)
    /\ files[Svc] = Rendered("systemdScript")

\* The order C2 states: service file, socket file, enable, daemon-reload
ClaimedInstallOrder(c) ==
    <<"stat:service", "create:service", "execPath:", "render:service">>
    \o (IF c.WithSocket THEN <<"stat:socket", "create:socket", "render:socket">> ELSE <<>>)
    \o <<"run:enable", "run:daemon-reload">>

\* The order of the amended C2: service file, enable, socket file, daemon-reload
AmendedInstallOrder(c) ==
    <<"stat:service", "create:service", "execPath:", "render:service", "run:enable">>
    \o (IF c.WithSocket THEN <<"stat:socket", "create:socket", "render:socket">> ELSE <<>>)
    \o <<"run:daemon-reload">>

\* C2 as stated: Install() writes the service file, then the socket file
\* when one is requested, then enables, then reloads; enable is never called
\* before every requested unit file has been written.
C2_Original ==
    last.op = "Install" =>
        /\ IsPrefix(last.log, ClaimedInstallOrder(cfg))
        /\ Count(last.log, "run:enable") <= 1
        /\ Count(last.log, "run:daemon-reload") <= 1
        /\ (Has(last.log, "run:enable") /\ cfg.WithSocket
              => Precedes(last.log, "render:socket", "run:enable"))

\* C2, amended: Install() writes the service file, then enables, then writes
\* the socket file when one is requested, then reloads as its last step;
\* each command at most once; enable never before the service file has been
\* written, daemon-reload never before every requested file has been.
C2_InstallOrder ==
    last.op = "Install" =>
        /\ IsPrefix(last.log, AmendedInstallOrder(cfg))
        /\ (last.err = NoErr => last.log = AmendedInstallOrder(cfg))
        /\ Count(last.log, "run:enable") <= 1
        /\ Count(last.log, "run:daemon-reload") <= 1
        /\ (Has(last.log, "run:enable")
              => Precedes(last.log, "render:service", "run:enable"))
        /\ (Has(last.log, "stat:socket")
              => Precedes(last.log, "run:enable", "stat:socket"))
        /\ (Has(last.log, "run:daemon-reload")
              => /\ LastOf(last.log) = "run:daemon-reload"
                 /\ files[Svc] = Rendered("systemdScript")
                 /\ (cfg.WithSocket => files[Sock] = Rendered("systemdSocket")))

C2_Witness ==
    /\ last.op = "Install"
    /\ cfg.WithSocket
    /\ last.err = NoErr
    /\ enabled
    /\ Len(last.log) = 9

\* The errors of the steps that follow the creation of the service file
PostCreateErrs(c) ==
    {StepErr(e) : e \in {"execPath:", "render:service", "run:enable", "create:socket",
                         "render:socket", "run:daemon-reload"}}
    \cup {SocketExists(c.Name)}

\* C3: an Install() that fails after creating the service file returns the
\* error of the step that failed, which is the last step it ran, and removes
\* nothing: the files it created and the files that were there stay, and the
\* next Install() fails with the already-exists error at its first check.
C3_NoRollback ==
    /\ (last.op = "Install" /\ last.err \in PostCreateErrs(cfg)) =>
          /\ last.err = ErrOfStep(LastOf(last.log), cfg)
          /\ Removals(last.log) = <<>>
          /\ files[Svc].exists
          /\ (Has(last.log, "create:socket") /\ last.err # StepErr("create:socket")
                => files[Sock].exists)
          /\ \A f \in FileNames : last.files[f].exists => files[f].exists
    /\ (last.op = "Install" /\ prev.op = "Install" /\ prev.err \in PostCreateErrs(cfg)) =>
          /\ last.err = InitExists(cfg.Name)
          /\ last.log = <<"stat:service">>
          /\ files = last.files

C3_Witness ==
    /\ last.op = "Install"
    /\ prev.op = "Install"
    /\ prev.err = StepErr("render:socket")
    /\ last.err = InitExists(cfg.Name)
    /\ files[Svc] = Rendered("systemdScript")
    /\ files[Sock] = Partial("systemdSocket")

C5_SocketRemovalFails ==
    (/\ last.op = "Uninstall"
     /\ prev.op = "Install"
     /\ prev.err = NoErr
     /\ ~cfg.WithSocket
     /\ ~last.files[Sock].exists) =>
        /\ last.err # NoErr
        /\ last.err \in {StepErr("run:disable"), StepErr("remove:service"),
                         StepErr("remove:socket")}
        /\ (last.err = StepErr("remove:socket")
              => ~enabled /\ ~files[Svc].exists /\ last.files[Svc].exists)

C5_Witness ==
    /\ last.op = "Uninstall"
    /\ prev.op = "Install"
    /\ prev.err = NoErr
    /\ ~cfg.WithSocket
    /\ ~last.files[Sock].exists
    /\ last.enabled
    /\ last.err = StepErr("remove:socket")
    /\ ~enabled
    /\ ~files[Svc].exists

UninstallOfNothing == last.op = "Uninstall" /\ ~last.files[Svc].exists

\* C6 as stated: Uninstall() with no service unit file returns an error, and
\* the error is that of disable or that of removing the service file.
C6_Original ==
    UninstallOfNothing =>
        last.err \in {StepErr("run:disable"), StepErr("remove:service")}

\* C6, amended: Uninstall() with no service unit file never succeeds and
\* removes nothing; its error is that of disable, or else the user-service
\* error for a user service, or else that of removing the service file.
C6_NeverSucceeds ==
    UninstallOfNothing =>
        /\ last.err # NoErr
        /\ last.err \in {StepErr("run:disable"),
                         IF cfg.UserService THEN errNoUserServiceSystemd
                         ELSE StepErr("remove:service")}
        /\ files = last.files

C6_Witness ==
    /\ UninstallOfNothing
    /\ ~cfg.UserService
    /\ Commands(last.log) = <<"run:disable">>
    /\ last.err = StepErr("remove:service")
    /\ ~enabled


StartOk == run.state # "idle" /\ run.startResult = NoErr

\* C7: when the start hook fails, Run() returns the hook's error, having
\* called no other hook, made no signal registration and received no signal.
C7_StartFails ==
    (run.state # "idle" /\ run.startResult # NoErr) =>
        /\ run.state = "returned"
        /\ run.result = run.startResult
        /\ run.hooks = <<"start">>
        /\ run.subscribed = 0
        /\ Len(subs) = run.subsAtEntry
        /\ run.received = <<>>

C7_Witness ==
    /\ cfg.RunWait = "unset"
    /\ nruns = 1
    /\ run.state = "returned"
    /\ run.startResult = StartError
    /\ run.result = StartError
    /\ subs = <<>>

\* C8: with blocking enabled and a start hook that succeeds, Run() calls the
\* stop hook once, after the start hook, not while it still waits for a
\* signal, takes one signal off its channel however many were delivered, and
\* returns what the stop hook returned.
C8_StopOnce ==
    (cfg.RunWait = "unset" /\ StartOk) =>
        /\ (run.state = "waiting"
              => run.hooks = <<"start">> /\ run.received = <<>> /\ run.subscribed = 1)
        /\ (run.state = "returned"
              => /\ run.hooks = <<"start", "stop">>
                 /\ run.result = run.stopResult
                 /\ Len(run.received) = run.subscribed)

C8_Witness ==
    /\ cfg.RunWait = "unset"
    /\ run.state = "returned"
    /\ run.hooks = <<"start", "stop">>
    /\ Len(run.received) = 1
    /\ nsigs - run.sigsAtEntry >= 3
    /\ Len(subs[run.chan]) = 2
    /\ run.result = StopError

\* C9: with blocking disabled and a start hook that succeeds, Run() calls the
\* stop hook right after the start hook, without a signal delivered or
\* received and without a signal registration, and returns what the stop
\* hook returned; it never waits.
C9_NoBlocking ==
    cfg.RunWait = "noop" =>
        /\ run.state # "waiting"
        /\ subs = <<>>
        /\ (StartOk
              => /\ run.hooks = <<"start", "stop">>
                 /\ run.result = run.stopResult
                 /\ run.received = <<>>
                 /\ run.subscribed = 0
                 /\ (~run.killed => nsigs = run.sigsAtEntry))

C9_Witness ==
    /\ cfg.RunWait = "noop"
    /\ run.state = "returned"
    /\ run.hooks = <<"start", "stop">>
    /\ run.result = StopError
    /\ nsigs = 0

\* C10 as stated: at most one signal registration is ever made in a process,
\* and none made by Run() is left once that Run() has returned.
C10_Original ==
    /\ Len(subs) <= 1
    /\ (run.state = "returned" => subs = <<>>)

\* C10, amended: at most one signal registration is ever made in a process,
\* a later Run() making none; the registration is not taken down: it is
\* still there after the Run() that made it has returned, and from then on.
C10_SingleSubscription ==
    /\ Len(subs) <= 1
    /\ (run.subsAtEntry = 1 => run.subscribed = 0)
    /\ (run.state = "returned" /\ run.subscribed = 1 => Len(subs) = 1)
    /\ (Len(subs) = 1 <=> waitUsed)

C10_Witness ==
    /\ cfg.RunWait = "unset"
    /\ nruns >= 2
    /\ run.state = "returned"
    /\ run.startResult = NoErr
    /\ run.subsAtEntry = 1
    /\ run.subscribed = 0
    /\ Len(subs) = 1

FileEvents(log) ==
    SelectSeq(log, LAMBDA e : e \in {"stat:service", "create:service", "render:service",
                                     "stat:socket", "create:socket", "render:socket",
                                     "remove:service", "remove:socket"})

\* C11 as stated: for a user service, Install() and Uninstall() both fail with
\* the user-service error, and no file is looked for, created, written or
\* removed.
C11_Original ==
    (cfg.UserService /\ last.op \in {"Install", "Uninstall"}) =>
        /\ last.err = errNoUserServiceSystemd
        /\ FileEvents(last.log) = <<>>
        /\ files = last.files

\* C12: Start(), Stop() and Restart() each call their one command and do
\* nothing else: no file is touched, no handle is left open, the unit stays
\* enabled or disabled as it was, and the call returns the command's result,
\* the unit's activity changing only when the command succeeded.
C12_SingleCommand ==
    last.op \in {"Start", "Stop", "Restart"} =>
        /\ last.log = <<"run:" \o (CASE last.op = "Start" -> "start"
                                     [] last.op = "Stop" -> "stop"
                                     [] last.op = "Restart" -> "restart")>>
        /\ files = last.files
        /\ enabled = last.enabled
        /\ open = {}
        /\ last.err \in {NoErr, StepErr(LastOf(last.log))}
        /\ active = (IF last.err = NoErr THEN last.op # "Stop" ELSE last.active)

C12_Witness ==
    /\ last.op = "Start"
    /\ prev.op = "none"
    /\ \A f \in FileNames : ~files[f].exists
    /\ last.err = NoErr
    /\ active

\* C14: no file handle is open once Install() has returned, whatever step
\* ended it.
C14_HandlesClosed ==
    last.op = "Install" => open = {}

C14_Witness ==
    /\ last.op = "Install"
    /\ last.err = StepErr("render:socket")
    /\ Has(last.log, "create:service")
    /\ Has(last.log, "create:socket")
    /\ open = {}

\* C18: the unit is never enabled while its service unit file is absent;
\* enable is called only after the file has been created, and the file is
\* removed only after a disable that succeeded.
C18_EnabledHasFile ==
    /\ enabled => files[Svc].exists
    /\ (Has(last.log, "run:enable")
          => Precedes(last.log, "create:service", "run:enable") /\ files[Svc].exists)
    /\ (Has(last.log, "remove:service")
          => /\ Precedes(last.log, "run:disable", "remove:service")
             /\ last.err # StepErr("run:disable")
             /\ ~enabled)

C18_Witness ==
    /\ last.op = "Uninstall"
    /\ prev.op \in {"Start", "Stop", "Restart"}
    /\ last.enabled
    /\ last.err = NoErr
    /\ ~enabled
    /\ ~files[Svc].exists

\* A call in which no command and no file operation fails, made in state st
Unfailing(st, steps) ==
    Return(Exec(Enter(st.files, st.enabled, st.active, st.open), steps, cfg, NoFailure))

Here == [files |-> files, enabled |-> enabled, active |-> active, open |-> open]

\* C20: after a successful Install() with socket activation, an Uninstall()
\* in which nothing fails returns success and leaves no service file, no
\* socket file and the unit disabled, and an Install() in which nothing fails
\* then succeeds again.
C20_RoundTrip ==
    /\ (last.op = "Install" /\ last.err = NoErr /\ cfg.WithSocket) =>
          LET u == Unfailing(Here, UninstallSteps(cfg))
              i == Unfailing(u, InstallSteps(cfg))
          IN /\ u.err = NoErr
             /\ \A f \in FileNames : u.files[f] = Absent
             /\ ~u.enabled
             /\ i.err = NoErr
             /\ i.enabled
             /\ \A f \in FileNames : i.files[f] = Rendered(TemplateOf(f))
    /\ (last.op = "Uninstall" /\ last.err = NoErr) =>
          /\ \A f \in FileNames : files[f] = Absent
          /\ ~enabled

C20_Witness ==
    /\ cfg.WithSocket
    /\ last.op = "Install"
    /\ last.err = NoErr
    /\ prev.op = "Uninstall"
    /\ prev.err = NoErr
    /\ \A f \in FileNames : ~last.files[f].exists /\ files[f] = Rendered(TemplateOf(f))
    /\ ~last.enabled
    /\ enabled

SignalPending == run.state = "waiting" /\ subs[run.chan] # <<>>

\* C19: with blocking enabled and a start hook that succeeds, Run() has no
\* timeout: while no termination signal has been delivered it waits, the
\* stop hook not called; a Run() that waited returns only with a signal
\* delivered after it was entered; and once a signal is in its channel it
\* goes on to call the stop hook and return.
C19_UnboundedWait ==
    /\ []((cfg.RunWait = "unset" /\ StartOk /\ nsigs = 0)
            => run.state = "waiting" /\ run.hooks = <<"start">>)
    /\ []((run.state = "returned" /\ run.subscribed = 1)
            => Len(run.received) = 1 /\ nsigs > run.sigsAtEntry)
    /\ (SignalPending ~> (run.state = "returned" /\ run.hooks = <<"start", "stop">>))

C19_Witness ==
    /\ cfg.RunWait = "unset"
    /\ nruns = 1
    /\ nsigs = 1
    /\ run.state = "returned"
    /\ run.subscribed = 1
    /\ Len(run.received) = 1
    /\ run.hooks = <<"start", "stop">>


-----------------------------------------------------------------------------
(* The unit texts *)

\* The lines of a text that begin with the template text key
KeyLines(text, key) == {i \in DOMAIN text : text[i] # <<>> /\ text[i][1] = Lit(key)}
EmptyLines(text) == {i \in DOMAIN text : text[i] = <<>>}

\* The optional fields of the service unit, in the order of the template, each
\* with the text its line begins with
OptionalFields(to) ==
    << [field |-> to.ChRoot, key |-> "RootDirectory="],
       [field |-> to.WorkingDirectory, key |-> "WorkingDirectory="],
       [field |-> to.UserName, key |-> "User="],
       [field |-> to.ReloadSignal, key |-> "ExecReload=/bin/kill -"],
       [field |-> to.PIDFile, key |-> "PIDFile="] >>
Present(to) == {k \in DOMAIN OptionalFields(to) : OptionalFields(to)[k].field # ""}
Absentees(to) == DOMAIN OptionalFields(to) \ Present(to)

ServiceWritten == last.op = "Install" /\ files[Svc] = Rendered("systemdScript")

\* C13: a successful Install() with WithSocket leaves both unit files written,
\* the socket file with exactly one ListenStream= line, holding SocketPort as
\* it is, and exactly one Description= line, holding SocketDescription as it
\* is; without WithSocket, Install() does not stat, create or write the socket
\* file, whatever its outcome.
C13_SocketUnit ==
    /\ (last.op = "Install" /\ last.err = NoErr /\ cfg.WithSocket) =>
          /\ files[Svc] = Rendered("systemdScript")
          /\ files[Sock] = Rendered("systemdSocket")
          /\ \E i \in DOMAIN Text(Sock) :
                /\ KeyLines(Text(Sock), "ListenStream=") = {i}
                /\ Text(Sock)[i] = <<Lit("ListenStream="), Value(cfg.SocketPort)>>
          /\ \E i \in DOMAIN Text(Sock) :
                /\ KeyLines(Text(Sock), "Description=") = {i}
                /\ Text(Sock)[i] = <<Lit("Description="), Value(cfg.SocketDescription)>>
    /\ (last.op = "Install" /\ ~cfg.WithSocket) =>
          /\ ~Has(last.log, "stat:socket")
          /\ ~Has(last.log, "create:socket")
          /\ ~Has(last.log, "render:socket")
          /\ files[Sock] = last.files[Sock]

C13_Witness ==
    /\ last.op = "Install"
    /\ last.err = NoErr
    /\ cfg.WithSocket
    /\ cfg.SocketPort = "127.0.0.1:9090"
    /\ cfg.SocketDescription = "svc socket"
    /\ files[Sock] = Rendered("systemdSocket")
    /\ Text(Sock)[5] = <<Lit("ListenStream="), Value("127.0.0.1:9090")>>
    /\ Text(Sock)[2] = <<Lit("Description="), Value("svc socket")>>

\* C15: the service unit text Install() wrote has a RootDirectory=,
\* WorkingDirectory=, User=, ExecReload= or PIDFile= line exactly when the
\* field behind it is not empty.
C15_OptionalLines ==
    ServiceWritten =>
        \A k \in DOMAIN OptionalFields(To(cfg)) :
            (KeyLines(Text(Svc), OptionalFields(To(cfg))[k].key) # {})
                <=> (OptionalFields(To(cfg))[k].field # "")

C15_Witness ==
    /\ ServiceWritten
    /\ Present(To(cfg)) = {}
    /\ \A k \in DOMAIN OptionalFields(To(cfg)) :
            KeyLines(Text(Svc), OptionalFields(To(cfg))[k].key) = {}

\* C16 as stated: the service unit text has the 21 fixed lines of the template
\* and one line for each optional field that is set, and no empty line but the
\* template's own three.
C16_Original ==
    ServiceWritten =>
        /\ Len(Text(Svc)) = 21 + Cardinality(Present(To(cfg)))
        /\ Cardinality(EmptyLines(Text(Svc))) = 3

\* C16, amended: the service unit text always has the 26 lines of the
\* template; the line of an optional field that is set begins with its key,
\* and an optional field that is not set leaves an empty line in its place, so
\* the text has one empty line for each of them besides the template's three.
C16_EmptyLineWhenAbsent ==
    ServiceWritten =>
        /\ Len(Text(Svc)) = 26
        /\ \A k \in Present(To(cfg)) :
              /\ Text(Svc)[14 + k] # <<>>
              /\ Text(Svc)[14 + k][1] = Lit(OptionalFields(To(cfg))[k].key)
        /\ \A k \in Absentees(To(cfg)) : Text(Svc)[14 + k] = <<>>
        /\ Cardinality(EmptyLines(Text(Svc))) = 3 + Cardinality(Absentees(To(cfg)))

C16_Witness ==
    /\ ServiceWritten
    /\ cfg.ChRoot # ""
    /\ cfg.UserName = ""
    /\ Text(Svc)[15] = <<Lit("RootDirectory="), cmd(cfg.ChRoot)>>
    /\ Text(Svc)[17] = <<>>
    /\ Len(Text(Svc)) = 26

====
